---------------------------- MODULE Spec2Model ----------------------------
(***************************************************************************)
(* Model of the daily-metrics engine of crypto-market-analytics            *)
(* (src/scripts/compute_metrics.py): the METRICS_SQL CTE chain (the        *)
(* windowed metrics calculator), compute_metrics (DELETE + INSERT in one   *)
(* transaction), log_validation_summary (the NULL-waterfall audit) and     *)
(* main (connect / compute / validate / rollback / close).                 *)
(*                                                                         *)
(* Numbers.  A SQL NUMERIC value is an exact rational <<n, d>> in lowest   *)
(* terms with d > 0; SQL NULL is the empty tuple <<>>; a division by zero, *)
(* which aborts the statement in PostgreSQL, is the marker <<0, 0>>, which *)
(* every later operation propagates.  The rounding of a stored NUMERIC to  *)
(* its column scale is not modelled (values stay exact); its precision     *)
(* limit is (an out-of-range value aborts the INSERT).  STDDEV_POP is      *)
(* represented by its square, the population variance, so that it stays    *)
(* rational: vol_7d and vol_30d hold the square of the stored value.       *)
(***************************************************************************)
EXTENDS Integers, Sequences, FiniteSets, TLC

VARIABLES
    assets,         \* table assets: asset_id -> is_active
    daily_prices,   \* table daily_prices: set of rows, UNIQUE (asset_id, date)
    daily_metrics,  \* table daily_metrics as committed (what other connections see)
    pc,             \* position of main(): see the actions below
    conn,           \* main's variable conn: "None", "open" (usable), "broken", "closed"
    txn,            \* the connection's open transaction: <<>> (none) or <<working copy>>
    cur_rowcount,   \* cur.rowcount of the last statement: deleted, then inserted
    deleted,        \* compute_metrics' local `deleted` (-1: not assigned)
    rows_inserted,  \* main's rows_inserted (-1: not assigned)
    all_ok,         \* log_validation_summary's all_ok: "unset", "passed", "warnings"
    warnings,       \* the (asset_id, column) pairs log_validation_summary warned about
    pending,        \* the exception in flight: "none" or its name
    caught,         \* the exception `except Exception` caught: "none" or its name
    raised,         \* what main() raised to its caller: "none" or the name
    issued,         \* the statements and connection calls issued, in order
    n_close,        \* how many times conn.close() ran in this run
    run,            \* number of the current run of main() (1-based)
    prior,          \* daily_metrics as committed when the current run started
    results,        \* one [run, rows, count] per recompute that committed, in order
    main_result,    \* what main() returned to its caller: <<>> until it returns,
                    \* then the tuple of the values returned, <<"None">> for None
    sessions,       \* concurrently started runs, as the database sees them: per
                    \* session its position and its uncommitted deletes and inserts
    edit,           \* the change another writer made to the stores between two
                    \* runs: <<>> (none) or <<kind, asset_id, date>>
    assistant       \* the query assistant's execute_with_retry: its position,
                    \* result dict, connections and calls (<<>>: not running)

vars == <<assets, daily_prices, daily_metrics, pc, conn, txn, cur_rowcount, deleted,
          rows_inserted, all_ok, warnings, pending, caught, raised, issued, n_close,
          run, prior, results, main_result, sessions, edit, assistant>>

---------------------------------------------------------------------------
(* SQL NUMERIC arithmetic with NULL propagation.                           *)

NULL == <<>>

DIV_ERROR == <<0, 0>>

IsNull(v) == v = NULL

IsError(v) == v = DIV_ERROR

Abs(n) == IF n < 0 THEN -n ELSE n

RECURSIVE GCD(_, _)
GCD(a, b) == IF b = 0 THEN a ELSE GCD(b, a % b)

\* n/d in lowest terms with a positive denominator (d # 0).
Norm(n, d) ==
    LET g == GCD(Abs(n), Abs(d))
        s == IF d < 0 THEN -1 ELSE 1
    IN  <<(s * n) \div g, (s * d) \div g>>

Num(n) == <<n, 1>>

LCM(a, b) == (a \div GCD(a, b)) * b

RAdd(a, b) ==
    IF IsNull(a) \/ IsNull(b) THEN NULL
    ELSE IF IsError(a) \/ IsError(b) THEN DIV_ERROR
    ELSE LET l == LCM(a[2], b[2])
         IN  Norm(a[1] * (l \div a[2]) + b[1] * (l \div b[2]), l)

RNeg(a) == IF IsNull(a) \/ IsError(a) THEN a ELSE <<-a[1], a[2]>>

RSub(a, b) == RAdd(a, RNeg(b))

RMul(a, b) ==
    IF IsNull(a) \/ IsNull(b) THEN NULL
    ELSE IF IsError(a) \/ IsError(b) THEN DIV_ERROR
    ELSE LET x == Norm(a[1], b[2])
             y == Norm(b[1], a[2])
         IN  Norm(x[1] * y[1], x[2] * y[2])

\* a / b: NULL if an operand is NULL, "division by zero" if b = 0.
RDiv(a, b) ==
    IF IsNull(a) \/ IsNull(b) THEN NULL
    ELSE IF IsError(a) \/ IsError(b) \/ b[1] = 0 THEN DIV_ERROR
    ELSE RMul(a, Norm(b[2], b[1]))

\* Variant: the divisor is used as it is.
NullIfNever(a, b) == a

\* NULLIF(a, b): NULL when a = b, else a.
NullIf(a, b) == IF IsNull(a) \/ IsNull(b) THEN a ELSE IF a = b THEN NULL ELSE a

---------------------------------------------------------------------------
(* Window frames and aggregates over one partition, a date-ordered         *)
(* sequence of values.  Positions are 1-based: position p is the spec's    *)
(* i = p - 1.                                                              *)

\* ROWS BETWEEN lo PRECEDING AND hi PRECEDING (hi = 0: CURRENT ROW), at row p.
Frame(p, lo, hi) == {j \in (p - lo)..(p - hi) : j >= 1}

\* COUNT(x) OVER frame: the non-NULL values in the frame.
WCount(xs, F) == Cardinality({j \in F : ~IsNull(xs[j])})

RECURSIVE WSumFrom(_, _, _)
\* The sum of the non-NULL xs[j], first <= j <= last, by halves.
WSumFrom(xs, first, last) ==
    IF first > last THEN Num(0)
    ELSE IF first = last
    THEN (IF first < 1 \/ IsNull(xs[first]) THEN Num(0) ELSE xs[first])
    ELSE LET mid == (first + last) \div 2
         IN  RAdd(WSumFrom(xs, first, mid), WSumFrom(xs, mid + 1, last))

\* SUM(x) OVER the frame (p - lo)..(p - hi), NULLs skipped.
WSum(xs, p, lo, hi) == WSumFrom(xs, p - lo, p - hi)

\* Variant: the total of the frame, not divided by the count.
WAvgAsSum(xs, p, lo, hi) ==
    LET n == WCount(xs, Frame(p, lo, hi))
    IN  IF n = 0 THEN NULL ELSE WSum(xs, p, lo, hi)

\* AVG(x) OVER frame: NULL on a frame without a non-NULL value.
WAvg(xs, p, lo, hi) ==
    LET n == WCount(xs, Frame(p, lo, hi))
    IN  IF n = 0 THEN NULL ELSE RDiv(WSum(xs, p, lo, hi), Num(n))

\* SUM(x * x) OVER the frame (p - lo)..(p - hi), NULLs skipped.
WSumSq(xs, p, lo, hi) ==
    WSumFrom([j \in Frame(p, lo, hi) |-> RMul(xs[j], xs[j])], p - lo, p - hi)

\* STDDEV_POP(x) OVER frame, squared: (N * sum(x^2) - sum(x)^2) / N^2.
WVarPop(xs, p, lo, hi) ==
    LET n   == WCount(xs, Frame(p, lo, hi))
        sx  == WSum(xs, p, lo, hi)
        sxx == WSumSq(xs, p, lo, hi)
    IN  IF n = 0 THEN NULL
        ELSE RDiv(RSub(RMul(Num(n), sxx), RMul(sx, sx)), Num(n * n))

\* LAG(x, 1) OVER (PARTITION BY asset_id ORDER BY date).
Lag(xs, p) == IF p > 1 THEN xs[p - 1] ELSE NULL

---------------------------------------------------------------------------
(* METRICS_SQL: the CTE chain, one partition (asset) at a time.            *)

\* ORDER BY date of one partition (dates are unique within an asset): the
\* row at position i has i - 1 rows of earlier date.
OrderByDate(part) ==
    LET earlier == [r \in part |-> Cardinality({q \in part : q.date < r.date})]
    IN  [i \in 1..Cardinality(part) |-> CHOOSE r \in part : earlier[r] = i - 1]

\* Variant: the join without its WHERE clause.
base_data_unfiltered(prices, ast) == {r \in prices : r.asset_id \in DOMAIN ast}

\* CTE 1: daily_prices JOIN assets WHERE is_active = TRUE.
base_data(prices, ast) ==
    {r \in prices : r.asset_id \in DOMAIN ast /\ ast[r.asset_id] = TRUE}

\* Variant: no PARTITION BY, one ordering by date (then asset) over all rows.
PartitionByNone(rows, a) ==
    LET before == [r \in rows |->
                      Cardinality({q \in rows :
                          \/ q.date < r.date
                          \/ q.date = r.date /\ q.asset_id < r.asset_id})]
    IN  [i \in 1..Cardinality(rows) |-> CHOOSE r \in rows : before[r] = i - 1]

\* PARTITION BY asset_id ORDER BY date.
PartitionBy(rows, a) == OrderByDate({r \in rows : r.asset_id = a})

\* Variant: the change is divided by the current close.
daily_return_pct_on_current(cls, p) ==
    IF ~IsNull(Lag(cls, p))
    THEN RMul(RDiv(RSub(cls[p], Lag(cls, p)), cls[p]), Num(100))
    ELSE NULL

\* Metric 1: daily_return_pct at row p, from the partition's close column.
daily_return_pct(cls, p) ==
    IF ~IsNull(Lag(cls, p))
    THEN RMul(RDiv(RSub(cls[p], Lag(cls, p)), Lag(cls, p)), Num(100))
    ELSE NULL

\* Variant: the range is taken relative to the close.
daily_range_pct_on_close(r) ==
    IF ~IsNull(r.high) /\ ~IsNull(r.low)
    THEN RMul(RDiv(RSub(r.high, r.low), r.close), Num(100))
    ELSE NULL

\* Metric 2: daily_range_pct of the row r.
daily_range_pct(r) ==
    IF ~IsNull(r.high) /\ ~IsNull(r.low)
    THEN RMul(RDiv(RSub(r.high, r.low), r.low), Num(100))
    ELSE NULL

\* CTE 2: with_returns, over one partition.
with_returns(bd) ==
    LET cls == [j \in 1..Len(bd) |-> bd[j].close]
    IN
    [p \in 1..Len(bd) |->
        [asset_id         |-> bd[p].asset_id,
         date             |-> bd[p].date,
         close            |-> bd[p].close,
         volume_usd       |-> bd[p].volume_usd,
         daily_return_pct |-> daily_return_pct(cls, p),
         daily_range_pct  |-> daily_range_pct(bd[p])]]

\* Variant: the guard counts the rows of the frame, NULL returns included.
vol_nd_partial(rets, p, n) ==
    IF Cardinality(Frame(p, n - 1, 0)) = n
    THEN WVarPop(rets, p, n - 1, 0)
    ELSE NULL

\* Metrics 3 and 4: rolling STDDEV_POP (squared) of daily_return_pct over the
\* trailing n rows, the current one included; NULL unless n values are non-NULL.
vol_nd(rets, p, n) ==
    IF WCount(rets, Frame(p, n - 1, 0)) = n
    THEN WVarPop(rets, p, n - 1, 0)
    ELSE NULL

\* Variant: no COUNT guard, the average of however many closes the frame holds.
sma_n_partial(cls, p, n) == WAvg(cls, p, n - 1, 0)

\* Metrics 5 and 6: rolling AVG of close over the trailing n rows.
sma_n(cls, p, n) ==
    IF WCount(cls, Frame(p, n - 1, 0)) = n
    THEN WAvg(cls, p, n - 1, 0)
    ELSE NULL

\* Variant: the frame ends at the current row.
volume_ratio_30d_inclusive(vols, p) ==
    IF WCount(vols, Frame(p, 29, 0)) = 30
    THEN RDiv(vols[p], NullIf(WAvg(vols, p, 29, 0), Num(0)))
    ELSE NULL

\* Variant: the guard accepts a frame that is not full.
volume_ratio_30d_partial(vols, p) ==
    IF WCount(vols, Frame(p, 30, 1)) >= 1
    THEN RDiv(vols[p], NullIf(WAvg(vols, p, 30, 1), Num(0)))
    ELSE NULL

\* Variant: the frame reaches 31 rows back.
volume_ratio_30d_wide(vols, p) ==
    IF WCount(vols, Frame(p, 31, 1)) = 31
    THEN RDiv(vols[p], NullIf(WAvg(vols, p, 31, 1), Num(0)))
    ELSE NULL

\* Metric 7: volume_usd / NULLIF(AVG of the 30 rows before the current one, 0).
volume_ratio_30d(vols, p) ==
    IF WCount(vols, Frame(p, 30, 1)) = 30
    THEN RDiv(vols[p], NullIf(WAvg(vols, p, 30, 1), Num(0)))
    ELSE NULL

\* CTE 3: with_all_metrics, over one partition.
with_all_metrics(wr) ==
    LET rets == [j \in 1..Len(wr) |-> wr[j].daily_return_pct]
        cls  == [j \in 1..Len(wr) |-> wr[j].close]
        vols == [j \in 1..Len(wr) |-> wr[j].volume_usd]
    IN  [p \in 1..Len(wr) |->
            [asset_id         |-> wr[p].asset_id,
             date             |-> wr[p].date,
             daily_return_pct |-> wr[p].daily_return_pct,
             daily_range_pct  |-> wr[p].daily_range_pct,
             vol_7d           |-> vol_nd(rets, p, 7),
             vol_30d          |-> vol_nd(rets, p, 30),
             sma_7            |-> sma_n(cls, p, 7),
             sma_30           |-> sma_n(cls, p, 30),
             volume_ratio_30d |-> volume_ratio_30d(vols, p)]]

\* The metric rows of asset a, in date order.
MetricSeries(prices, ast, a) ==
    with_all_metrics(with_returns(PartitionBy(base_data(prices, ast), a)))

\* The rows the final SELECT hands to the INSERT.
MetricsSelect(prices, ast) ==
    UNION {LET ms == MetricSeries(prices, ast, a)
           IN  {ms[p] : p \in DOMAIN ms} : a \in DOMAIN ast}

---------------------------------------------------------------------------
(* The INSERT into daily_metrics.                                          *)

MetricColumns ==
    {"daily_return_pct", "daily_range_pct", "vol_7d", "vol_30d",
     "sma_7", "sma_30", "volume_ratio_30d"}

\* Whether v fits a NUMERIC column with k digits before the decimal point.
FitsNumeric(v, k) == IsNull(v) \/ IsError(v) \/ Abs(v[1]) \div v[2] < 10 ^ k

\* daily_metrics' column types: NUMERIC(10,6), NUMERIC(20,8), NUMERIC(10,4).
\* vol_7d and vol_30d hold the square of the stored value: |x| < 10^4 as x^2 < 10^8.
RowFits(m) ==
    /\ FitsNumeric(m.daily_return_pct, 4)
    /\ FitsNumeric(m.daily_range_pct, 4)
    /\ FitsNumeric(m.vol_7d, 8)
    /\ FitsNumeric(m.vol_30d, 8)
    /\ FitsNumeric(m.volume_ratio_30d, 6)

\* The (asset_id, date) keys of a set of rows: daily_metrics' unique key.
Keys(rows) == {<<r.asset_id, r.date>> : r \in rows}

\* The error cur.execute(METRICS_SQL) raises when run against `table`, or "none".
InsertError(table, prices, ast) ==
    LET new == MetricsSelect(prices, ast)
    IN  IF \E m \in new : \E c \in MetricColumns : IsError(m[c])
        THEN "DivisionByZero"
        ELSE IF \E m \in new : ~RowFits(m)
        THEN "NumericValueOutOfRange"
        ELSE IF \E m \in new : \E t \in table :
                    t.asset_id = m.asset_id /\ t.date = m.date
        THEN "UniqueViolation"
        ELSE "none"

---------------------------------------------------------------------------
(* The stores the engine can be started on.                                *)

\* Longest price series of an asset.
MaxRows == 40

Assets == {1, 2}

\* close by date: constant, alternating, or rising once.
ClosePatterns == {"flat", "alt", "jump"}

CloseAt(c, d) ==
    IF c = "flat" THEN 100
    ELSE IF c = "alt" THEN (IF d % 2 = 1 THEN 100 ELSE 200)
    ELSE (IF d <= 5 THEN 100 ELSE 200)

\* volume_usd by date: alternating, constant, NULL on one date, or zero on the
\* first 30 dates or on all.
VolumePatterns == {"ok", "flat", "null_early", "null_late", "zero_start", "zero_all"}

VolumeAt(v, d) ==
    IF v = "null_early" /\ d = 3 THEN NULL
    ELSE IF v = "null_late" /\ d = 33 THEN NULL
    ELSE IF v = "zero_all" \/ (v = "zero_start" /\ d <= 30) THEN Num(0)
    ELSE IF v = "flat" THEN Num(1000)
    ELSE Num(1000 + 1000 * (d % 2))

\* high and low by date: a NULL high or low on one date, or a zero low.
RangePatterns == {"ok", "high_null", "low_null", "low_zero"}

HighAt(h, d, c) == IF h = "high_null" /\ d = 2 THEN NULL ELSE Num(2 * c)

LowAt(h, d, c) ==
    IF h = "low_null" /\ d = 4 THEN NULL
    ELSE IF h = "low_zero" /\ d = 1 THEN Num(0)
    ELSE Num(c \div 2)

\* The price rows of asset a on the dates 1..n except the date `gap` (0: none).
PriceSeries(a, n, gap, c, v, h) ==
    {[asset_id   |-> a,
      date       |-> d,
      open       |-> Num(CloseAt(c, d)),
      high       |-> HighAt(h, d, CloseAt(c, d)),
      low        |-> LowAt(h, d, CloseAt(c, d)),
      close      |-> Num(CloseAt(c, d)),
      volume_usd |-> VolumeAt(v, d)] : d \in (1..n) \ {gap}}

\* Runs of main() in one behaviour (the operator starts them one after another).
MaxRuns == 2

\* What daily_metrics may hold before a run: rows of an earlier state of the
\* stores (other dates, an asset since deactivated, all-NULL metrics).
StaleRow(a, d) ==
    [asset_id |-> a, date |-> d, daily_return_pct |-> NULL, daily_range_pct |-> NULL,
     vol_7d |-> NULL, vol_30d |-> NULL, sma_7 |-> NULL, sma_30 |-> NULL,
     volume_ratio_30d |-> NULL]

PriorContents(prices, ast) ==
    {{}, {StaleRow(1, 1), StaleRow(1, MaxRows + 1), StaleRow(2, 1)}}
        \cup (IF InsertError({}, prices, ast) = "none"
              THEN {MetricsSelect(prices, ast)} ELSE {})

---------------------------------------------------------------------------
(* The connection: psycopg2 with autocommit off.                           *)

\* Variant: autocommit left on, every statement is visible at once.
VisibleAfterStatementAutocommit(committed, work) == work

\* What other connections see after a statement that left `work` in the
\* transaction: conn.autocommit = False keeps it out of sight until commit.
VisibleAfterStatement(committed, work) == committed

\* Variant: the DELETE removes nothing.
AfterDeleteNothing(table) == table

\* DELETE FROM daily_metrics; has no WHERE clause: no row of the table is left.
AfterDelete(table) == {}

\* Variant: the DELETE reaches the price rows as well.
PricesAfterDeleteCascade(prices) == {}

\* The DELETE names daily_metrics only, and no table refers to daily_metrics:
\* the price rows are as they were.
PricesAfterDelete(prices) == prices

Issue(call) == issued' = Append(issued, call)

\* An exception leaves the try block of main() for its handler.
Raise(exc) == pending' = exc /\ pc' = "except"

---------------------------------------------------------------------------
(* The NULL-waterfall audit of log_validation_summary.                     *)

\* Variant: every windowed column is expected to have window size - 1 NULLs.
ExpectedNullsWindowLessOne ==
    [daily_return_pct |-> 1, daily_range_pct |-> 0, vol_7d |-> 6, vol_30d |-> 29,
     sma_7 |-> 6, sma_30 |-> 29, volume_ratio_30d |-> 30]

\* The NULL counts the loop of log_validation_summary compares against.
ExpectedNulls ==
    [daily_return_pct |-> 1, daily_range_pct |-> 0, vol_7d |-> 7, vol_30d |-> 30,
     sma_7 |-> 6, sma_30 |-> 29, volume_ratio_30d |-> 30]

\* validation_sql: COUNT(*) - COUNT(column) of one asset's rows.
NullCount(table, a, col) ==
    Cardinality({m \in table : m.asset_id = a /\ IsNull(m[col])})

\* Variant: the query starts from assets, so every asset forms a group.
ValidatedAssetsAll(table, ast) == DOMAIN ast

\* The groups validation_sql returns: the assets that have metric rows.
ValidatedAssets(table, ast) == {a \in DOMAIN ast : \E m \in table : m.asset_id = a}

\* Variant: a count below the expected one is let through.
MismatchesAbove(table, ast) ==
    {ac \in ValidatedAssets(table, ast) \X MetricColumns :
        NullCount(table, ac[1], ac[2]) > ExpectedNulls[ac[2]]}

\* The (asset, column) pairs the loop warns about.
Mismatches(table, ast) ==
    {ac \in ValidatedAssets(table, ast) \X MetricColumns :
        NullCount(table, ac[1], ac[2]) # ExpectedNulls[ac[2]]}

---------------------------------------------------------------------------
(* main(): one action per step.                                            *)

\* get_db_connection(): psycopg2.connect succeeds, or raises OperationalError.
Connect ==
    /\ pc = "connect"
    /\ \/ /\ conn' = "open"
          /\ Issue("connect")
          /\ pc' = "delete"
          /\ UNCHANGED pending
       \/ /\ Raise("OperationalError")
          /\ UNCHANGED <<conn, issued>>
    /\ UNCHANGED <<caught, assets, daily_prices, daily_metrics, txn, cur_rowcount, deleted,
                   rows_inserted, all_ok, warnings, raised, n_close, run, prior, results>>
    /\ UNCHANGED <<main_result, sessions, edit, assistant>>

\* compute_metrics, step 1: cur.execute("DELETE FROM daily_metrics;").
\* It succeeds, fails as a statement, or fails because the server is gone.
DeleteStep ==
    /\ pc = "delete"
    /\ \/ /\ txn' = <<AfterDelete(daily_metrics)>>
          /\ daily_metrics' = VisibleAfterStatement(daily_metrics, AfterDelete(daily_metrics))
          /\ cur_rowcount' = Cardinality(daily_metrics \ AfterDelete(daily_metrics))
          /\ deleted' = Cardinality(daily_metrics \ AfterDelete(daily_metrics))
          /\ daily_prices' = PricesAfterDelete(daily_prices)
          /\ Issue("DELETE")
          /\ pc' = "insert"
          /\ UNCHANGED <<conn, pending>>
       \/ /\ txn' = <<daily_metrics>>
          /\ Raise("DeleteFailed")
          /\ UNCHANGED <<conn, daily_metrics, daily_prices, cur_rowcount, deleted, issued>>
       \/ /\ conn' = "broken"
          /\ txn' = <<>>
          /\ Raise("ConnectionLost")
          /\ UNCHANGED <<daily_metrics, daily_prices, cur_rowcount, deleted, issued>>
    /\ UNCHANGED <<caught, assets, rows_inserted, all_ok, warnings, raised,
                   n_close, run, prior, results>>
    /\ UNCHANGED <<main_result, sessions, edit, assistant>>

\* compute_metrics, step 2: cur.execute(METRICS_SQL).  The statement inserts
\* every row or raises (its own error, or the server is gone).
InsertStep ==
    /\ pc = "insert"
    /\ \/ /\ InsertError(txn[1], daily_prices, assets) = "none"
          /\ txn' = <<txn[1] \cup MetricsSelect(daily_prices, assets)>>
          /\ daily_metrics' = VisibleAfterStatement(daily_metrics, txn'[1])
          /\ cur_rowcount' = Cardinality(MetricsSelect(daily_prices, assets))
          /\ Issue("INSERT")
          /\ pc' = "commit"
          /\ UNCHANGED <<conn, pending>>
       \/ /\ InsertError(txn[1], daily_prices, assets) # "none"
          /\ Raise(InsertError(txn[1], daily_prices, assets))
          /\ UNCHANGED <<conn, txn, daily_metrics, cur_rowcount, issued>>
       \/ /\ conn' = "broken"
          /\ txn' = <<>>
          /\ Raise("ConnectionLost")
          /\ UNCHANGED <<daily_metrics, cur_rowcount, issued>>
    /\ UNCHANGED <<caught, assets, daily_prices, deleted, rows_inserted, all_ok, warnings,
                   raised, n_close, run, prior, results>>
    /\ UNCHANGED <<main_result, sessions, edit, assistant>>

\* Variant: the other row count is returned.
ReturnedDeleted(n_deleted, n_inserted) == n_deleted

\* compute_metrics' result: `return inserted`.
Returned(n_deleted, n_inserted) == n_inserted

\* compute_metrics, conn.commit() and return: the transaction becomes visible
\* as a whole, or the commit raises and nothing of it does; when the server goes
\* away during the commit, the client cannot tell which of the two happened.
CommitStep ==
    /\ pc = "commit"
    /\ \/ /\ daily_metrics' = txn[1]
          /\ txn' = <<>>
          /\ rows_inserted' = Returned(deleted, cur_rowcount)
          /\ results' = Append(results, [run |-> run, rows |-> txn[1],
                                         count |-> Returned(deleted, cur_rowcount)])
          /\ Issue("commit")
          /\ pc' = "validate"
          /\ UNCHANGED <<conn, pending>>
       \/ /\ txn' = <<>>
          /\ Raise("CommitFailed")
          /\ Issue("commit")
          /\ UNCHANGED <<conn, daily_metrics, rows_inserted, results>>
       \/ /\ conn' = "broken"
          /\ txn' = <<>>
          /\ daily_metrics' \in {daily_metrics, txn[1]}
          /\ Raise("ConnectionLost")
          /\ Issue("commit")
          /\ UNCHANGED <<rows_inserted, results>>
    /\ UNCHANGED <<caught, assets, daily_prices, cur_rowcount, deleted, all_ok, warnings,
                   raised, n_close, run, prior>>
    /\ UNCHANGED <<main_result, sessions, edit, assistant>>

\* Variant: a mismatch is raised as an error.
AuditOutcomeRaises(mismatches) == IF mismatches = {} THEN "none" ELSE "ValidationMismatch"

\* What the audit does with the mismatches it found: it logs them.
AuditOutcome(mismatches) == "none"

\* log_validation_summary(conn): the query runs (opening a new transaction on
\* the connection) and the loop compares the counts, or the query raises (as a
\* statement, or because the server is gone).
ValidateStep ==
    /\ pc = "validate"
    /\ \/ /\ txn' = <<daily_metrics>>
          /\ warnings' = Mismatches(daily_metrics, assets)
          /\ all_ok' = IF Mismatches(daily_metrics, assets) = {}
                       THEN "passed" ELSE "warnings"
          /\ Issue("SELECT")
          /\ IF AuditOutcome(Mismatches(daily_metrics, assets)) = "none"
             THEN pc' = "finally" /\ UNCHANGED pending
             ELSE Raise(AuditOutcome(Mismatches(daily_metrics, assets)))
          /\ UNCHANGED conn
       \/ /\ txn' = <<daily_metrics>>
          /\ Raise("ValidationQueryFailed")
          /\ Issue("SELECT")
          /\ UNCHANGED <<conn, all_ok, warnings>>
       \/ /\ conn' = "broken"
          /\ txn' = <<>>
          /\ Raise("ConnectionLost")
          /\ Issue("SELECT")
          /\ UNCHANGED <<all_ok, warnings>>
    /\ UNCHANGED <<caught, assets, daily_prices, daily_metrics, cur_rowcount, deleted,
                   rows_inserted, raised, n_close, run, prior, results>>
    /\ UNCHANGED <<main_result, sessions, edit, assistant>>

\* Variant: only a connection that still works is rolled back and closed.
HasUsableConnection(c) == c = "open"

\* Variant: the handler and the finally block do not test conn.
HasConnectionUnchecked(c) == TRUE

\* `if conn is not None` of the handler and of the finally block.
HasConnection(c) == c # "None"

\* What leaves the handler: `raise` re-raises the exception it caught, unless
\* conn.rollback() raised first (psycopg2 raises InterfaceError on a connection
\* that is gone), which then replaces it.
AfterRollback(exc, c) == IF c = "broken" THEN "InterfaceError" ELSE exc

\* except Exception: rollback if there is a connection, then re-raise.
ExceptHandler ==
    /\ pc = "except"
    /\ caught' = pending
    /\ IF HasConnection(conn)
       THEN /\ Issue("rollback")
            /\ txn' = <<>>
            /\ pending' = AfterRollback(pending, conn)
       ELSE UNCHANGED <<issued, txn, pending>>
    /\ pc' = "finally"
    /\ UNCHANGED <<assets, daily_prices, daily_metrics, conn, cur_rowcount, deleted,
                   rows_inserted, all_ok, warnings, raised, n_close, run, prior,
                   results>>
    /\ UNCHANGED <<main_result, sessions, edit, assistant>>

\* Variant: main hands the count and the audit's findings to its caller.
MainReturnReport(n_rows, verdict, mismatches) ==
    <<n_rows, verdict = "passed", mismatches>>

\* What main() returns when it ends normally: it is declared `-> None` and has
\* no return statement; log_validation_summary returns None as well, so the
\* count and the audit's findings go to the log only.
MainReturn(n_rows, verdict, mismatches) == <<"None">>

\* finally: close the connection if there is one; main() then returns or raises.
FinallyStep ==
    /\ pc = "finally"
    /\ IF HasConnection(conn)
       THEN /\ Issue("close")
            /\ conn' = "closed"
            /\ txn' = <<>>
            /\ n_close' = n_close + 1
       ELSE UNCHANGED <<issued, conn, txn, n_close>>
    /\ raised' = pending
    /\ main_result' = IF pending = "none"
                       THEN MainReturn(rows_inserted, all_ok, warnings)
                       ELSE <<>>
    /\ pc' = "done"
    /\ UNCHANGED <<caught, assets, daily_prices, daily_metrics, cur_rowcount, deleted,
                   rows_inserted, all_ok, warnings, pending, run, prior, results>>
    /\ UNCHANGED <<sessions, edit, assistant>>

\* The operator starts the next run of main() after the previous one ended.
StartRun ==
    /\ pc = "done"
    /\ run < MaxRuns
    /\ run' = run + 1
    /\ prior' = daily_metrics
    /\ pc' = "connect"
    /\ conn' = "None"
    /\ txn' = <<>>
    /\ cur_rowcount' = -1
    /\ deleted' = -1
    /\ rows_inserted' = -1
    /\ all_ok' = "unset"
    /\ warnings' = {}
    /\ pending' = "none"
    /\ caught' = "none"
    /\ raised' = "none"
    /\ issued' = <<>>
    /\ n_close' = 0
    /\ main_result' = <<>>
    /\ UNCHANGED <<assets, daily_prices, daily_metrics, results, sessions, edit, assistant>>

\* No concurrently started run.
NoSessions == <<>>

\* No other writer has touched the stores.
NoEdit == <<>>

\* The query assistant is not running.
NoAssistant == <<>>

\* The locals of main() before its first statement.
FreshRun ==
    /\ pc = "connect"
    /\ conn = "None"
    /\ txn = <<>>
    /\ cur_rowcount = -1
    /\ deleted = -1
    /\ rows_inserted = -1
    /\ all_ok = "unset"
    /\ warnings = {}
    /\ pending = "none"
    /\ caught = "none"
    /\ raised = "none"
    /\ issued = <<>>
    /\ n_close = 0
    /\ run = 1
    /\ results = <<>>
    /\ main_result = <<>>

\* Asset 1 has no, 31 or MaxRows price rows; asset 2 has two.
Init ==
    /\ assets \in [Assets -> BOOLEAN]
    /\ \E n \in {0, 31, MaxRows} : \E v \in {"ok", "null_early"} :
       \E h \in {"ok", "low_zero"} :
          daily_prices = PriceSeries(1, n, 0, "alt", v, "ok")
                            \cup PriceSeries(2, 2, 0, "flat", "ok", h)
    /\ daily_metrics \in PriorContents(daily_prices, assets)
    /\ prior = daily_metrics
    /\ FreshRun
    /\ sessions = NoSessions
    /\ edit = NoEdit
    /\ assistant = NoAssistant

Next ==
    \/ Connect
    \/ DeleteStep
    \/ InsertStep
    \/ CommitStep
    \/ ValidateStep
    \/ ExceptHandler
    \/ FinallyStep
    \/ StartRun

Spec == Init /\ [][Next]_vars

---------------------------------------------------------------------------
(* The calculator on its own: compute_metrics from its INSERT on, started  *)
(* on an empty daily_metrics, over a wider family of price series.         *)

\* One price series: its close, volume and high/low patterns and the date
\* missing from it (0: none).  Each shape varies one of them.
SeriesShapes ==
    {[c |-> c, v |-> "ok", h |-> "ok", gap |-> 0] : c \in ClosePatterns}
        \cup {[c |-> "flat", v |-> "flat", h |-> "ok", gap |-> 0]}
        \cup {[c |-> "alt", v |-> v, h |-> "ok", gap |-> 0] : v \in VolumePatterns}
        \cup {[c |-> "alt", v |-> "ok", h |-> h, gap |-> 0] : h \in RangePatterns}
        \cup {[c |-> "alt", v |-> "ok", h |-> "ok", gap |-> 20]}

\* main() after the DELETE of an empty table: asset 1 has any series of up to
\* MaxRows dates, asset 2 a two-row one; both are active.
InitCalc ==
    /\ assets = [a \in Assets |-> TRUE]
    /\ \E n \in 0..MaxRows : \E s \in SeriesShapes :
          daily_prices = PriceSeries(1, n, s.gap, s.c, s.v, s.h)
                            \cup PriceSeries(2, 2, 0, "flat", "ok", "ok")
    /\ daily_metrics = {}
    /\ prior = {}
    /\ pc = "insert"
    /\ conn = "open"
    /\ txn = <<{}>>
    /\ cur_rowcount = 0
    /\ deleted = 0
    /\ rows_inserted = -1
    /\ all_ok = "unset"
    /\ warnings = {}
    /\ pending = "none"
    /\ caught = "none"
    /\ raised = "none"
    /\ issued = <<"connect", "DELETE">>
    /\ n_close = 0
    /\ run = 1
    /\ results = <<>>
    /\ main_result = <<>>
    /\ sessions = NoSessions
    /\ edit = NoEdit
    /\ assistant = NoAssistant

NextCalc ==
    \/ InsertStep
    \/ CommitStep
    \/ ValidateStep
    \/ ExceptHandler
    \/ FinallyStep

SpecCalc == InitCalc /\ [][NextCalc]_vars

---------------------------------------------------------------------------
(* Two runs started at the same time, as the database sees them.  Each run *)
(* is compute_metrics on its own connection: DELETE, INSERT, commit, under *)
(* PostgreSQL's default READ COMMITTED isolation.  The code takes no table *)
(* lock (no LOCK TABLE, no advisory lock): DELETE and INSERT take the      *)
(* ROW EXCLUSIVE table lock, which does not conflict with itself, a lock   *)
(* on each row the DELETE removes, and the unique index makes an INSERT    *)
(* wait for an open transaction that inserted or deleted the same key.     *)

Sessions == {1, 2}

Other(s) == 3 - s

\* A session before its first statement.
NewSession == [pc |-> "begin", snap |-> {}, del |-> {}, ins |-> {}]

\* The rows a session's statements see and may conflict with: the committed
\* rows less its own uncommitted deletes.
VisibleCommitted(s) == daily_metrics \ sessions[s].del

\* The stores' other tables and the bookkeeping of the single run stay as they are.
SessionStep ==
    UNCHANGED <<assets, daily_prices, pc, conn, txn, cur_rowcount, deleted,
                rows_inserted, all_ok, warnings, pending, caught, raised,
                issued, n_close, run, prior, results, main_result, edit, assistant>>

\* cur.execute("DELETE FROM daily_metrics;") starts: the statement takes its
\* snapshot of the committed rows.
ConcDeleteIssued(s) ==
    /\ sessions[s].pc = "begin"
    /\ sessions' = [sessions EXCEPT ![s].pc = "deleting", ![s].snap = daily_metrics]
    /\ UNCHANGED daily_metrics
    /\ SessionStep

\* The DELETE completes: it waits while another open transaction holds the
\* lock of a row of its snapshot, then removes the rows of its snapshot that
\* still exist and keeps their locks.
ConcDeleteDone(s) ==
    /\ sessions[s].pc = "deleting"
    /\ sessions[s].snap \cap sessions[Other(s)].del = {}
    /\ sessions' = [sessions EXCEPT ![s].pc = "insert", ![s].del = sessions[s].snap]
    /\ UNCHANGED daily_metrics
    /\ SessionStep

\* cur.execute(METRICS_SQL): it waits while the other open transaction has
\* inserted or deleted a row of one of its keys; then it inserts every row, or
\* raises (UniqueViolation when a committed row of the key exists).
ConcInsert(s) ==
    /\ sessions[s].pc = "insert"
    /\ Keys(MetricsSelect(daily_prices, assets))
           \cap Keys(sessions[Other(s)].ins \cup sessions[Other(s)].del) = {}
    /\ IF InsertError(VisibleCommitted(s), daily_prices, assets) = "none"
       THEN sessions' = [sessions EXCEPT ![s].pc = "commit",
                                         ![s].ins = MetricsSelect(daily_prices, assets)]
       ELSE sessions' = [sessions EXCEPT ![s].pc = "failed"]
    /\ UNCHANGED daily_metrics
    /\ SessionStep

\* conn.commit(): the session's deletes and inserts become the committed rows
\* and its locks are released; the rows it deleted no longer exist for a
\* DELETE of the other session that is waiting.
ConcCommit(s) ==
    /\ sessions[s].pc = "commit"
    /\ daily_metrics' = VisibleCommitted(s) \cup sessions[s].ins
    /\ sessions' = [sessions EXCEPT
                        ![s] = [pc |-> "done", snap |-> {}, del |-> {}, ins |-> {}],
                        ![Other(s)].snap = sessions[Other(s)].snap \ sessions[s].del]
    /\ SessionStep

\* The statement raised: main's handler rolls the transaction back.
ConcRollback(s) ==
    /\ sessions[s].pc = "failed"
    /\ sessions' = [sessions EXCEPT
                        ![s] = [pc |-> "done", snap |-> {}, del |-> {}, ins |-> {}]]
    /\ UNCHANGED daily_metrics
    /\ SessionStep

\* Both runs are about to issue their DELETE; asset 1 has no, 2 or 8 price rows.
InitConc ==
    /\ assets = [a \in Assets |-> TRUE]
    /\ \E n \in {0, 2, 8} : \E c \in ClosePatterns :
          daily_prices = PriceSeries(1, n, 0, c, "ok", "ok")
                            \cup PriceSeries(2, 2, 0, "flat", "ok", "ok")
    /\ daily_metrics \in PriorContents(daily_prices, assets)
    /\ prior = daily_metrics
    /\ FreshRun
    /\ sessions = [s \in Sessions |-> NewSession]
    /\ edit = NoEdit
    /\ assistant = NoAssistant

NextConc ==
    \E s \in Sessions :
        \/ ConcDeleteIssued(s)
        \/ ConcDeleteDone(s)
        \/ ConcInsert(s)
        \/ ConcCommit(s)
        \/ ConcRollback(s)

SpecConc == InitConc /\ [][NextConc]_vars

---------------------------------------------------------------------------
(* Two runs with a change to the stores between them.  The ingestion       *)
(* script upserts price rows (populate_daily_prices); an operator removes  *)
(* a price row or switches an asset's is_active flag.  One change is made  *)
(* after the first run has committed its recompute and ended.              *)

\* The dates the change touches: the first, an early one, and one with 31
\* later dates in the longest series.
BackfillDates == {1, 3, MaxRows - 31}

\* The close and volume_usd the ingestion writes.
BackfillValues ==
    {[close |-> 300, volume_usd |-> Num(5000)], [close |-> 100, volume_usd |-> NULL]}

\* One record of daily_data as populate_daily_prices binds it.
PriceRecord(a, d, x) ==
    [asset_id   |-> a,
     date       |-> d,
     open       |-> Num(x.close),
     high       |-> Num(2 * x.close),
     low        |-> Num(x.close \div 2),
     close      |-> Num(x.close),
     volume_usd |-> x.volume_usd]

\* INSERT ... ON CONFLICT (asset_id, date) DO UPDATE SET every column.
Upsert(prices, rec) ==
    {r \in prices : ~(r.asset_id = rec.asset_id /\ r.date = rec.date)} \cup {rec}

\* The change is made between two runs, once; the engine's own state and
\* daily_metrics stay as they are.
WriterStep ==
    /\ pc = "done"
    /\ run = 1
    /\ Len(results) = 1
    /\ edit = NoEdit
    /\ UNCHANGED <<daily_metrics, pc, conn, txn, cur_rowcount, deleted, rows_inserted,
                   all_ok, warnings, pending, caught, raised, issued, n_close, run,
                   prior, results, main_result, sessions, assistant>>

\* populate_daily_prices(conn, asset_id, [rec]) and its commit.
Backfill ==
    /\ \E a \in Assets : \E d \in BackfillDates : \E x \in BackfillValues :
          /\ daily_prices' = Upsert(daily_prices, PriceRecord(a, d, x))
          /\ edit' = <<"upsert", a, d>>
    /\ UNCHANGED assets
    /\ WriterStep

\* A row of daily_prices is deleted.
RemovePricePoint ==
    /\ \E r \in daily_prices :
          /\ r.date \in BackfillDates
          /\ daily_prices' = daily_prices \ {r}
          /\ edit' = <<"remove", r.asset_id, r.date>>
    /\ UNCHANGED assets
    /\ WriterStep

\* assets.is_active of one asset is switched.
ToggleActive ==
    /\ \E a \in Assets :
          /\ assets' = [assets EXCEPT ![a] = ~assets[a]]
          /\ edit' = <<"toggle", a, 0>>
    /\ UNCHANGED daily_prices
    /\ WriterStep

\* Asset 1 has MaxRows price rows, or all but the one of date 3; asset 2 has
\* two; daily_metrics is empty before the first run.
InitBackfill ==
    /\ assets \in [Assets -> BOOLEAN]
    /\ \E gap \in {0, 3} :
          daily_prices = PriceSeries(1, MaxRows, gap, "alt", "ok", "ok")
                            \cup PriceSeries(2, 2, 0, "flat", "ok", "ok")
    /\ daily_metrics = {}
    /\ prior = {}
    /\ FreshRun
    /\ sessions = NoSessions
    /\ edit = NoEdit
    /\ assistant = NoAssistant

NextBackfill ==
    \/ Connect
    \/ DeleteStep
    \/ InsertStep
    \/ CommitStep
    \/ ValidateStep
    \/ ExceptHandler
    \/ FinallyStep
    \/ StartRun
    \/ Backfill
    \/ RemovePricePoint
    \/ ToggleActive

SpecBackfill == InitBackfill /\ [][NextBackfill]_vars

---------------------------------------------------------------------------
(* The query assistant: execute_with_retry (app.py) calling nl_to_sql,     *)
(* run_query (db.py), nl_to_sql_with_error and generate_insight for one    *)
(* question.  SQL text is a sequence of characters.                        *)

\* str.strip(): the characters removed at both ends.
White == {" ", "\n", "\t"}

RECURSIVE LStrip(_)
LStrip(t) == IF t # <<>> /\ Head(t) \in White THEN LStrip(Tail(t)) ELSE t

RECURSIVE RStrip(_)
RStrip(t) ==
    IF t # <<>> /\ t[Len(t)] \in White THEN RStrip(SubSeq(t, 1, Len(t) - 1)) ELSE t

Strip(t) == RStrip(LStrip(t))

Lowers == <<"a", "b", "c", "d", "e", "f", "g", "h", "i", "j", "k", "l", "m", "n", "o",
            "p", "q", "r", "s", "t", "u", "v", "w", "x", "y", "z">>

Uppers == <<"A", "B", "C", "D", "E", "F", "G", "H", "I", "J", "K", "L", "M", "N", "O",
            "P", "Q", "R", "S", "T", "U", "V", "W", "X", "Y", "Z">>

\* str.upper(), character by character.
Upper(t) ==
    [i \in 1..Len(t) |->
        IF \E k \in DOMAIN Lowers : Lowers[k] = t[i]
        THEN Uppers[CHOOSE k \in DOMAIN Lowers : Lowers[k] = t[i]]
        ELSE t[i]]

\* str.startswith(prefix).
StartsWith(t, prefix) ==
    Len(t) >= Len(prefix) /\ SubSeq(t, 1, Len(prefix)) = prefix

EndsWith(t, suffix) ==
    Len(t) >= Len(suffix) /\ SubSeq(t, Len(t) - Len(suffix) + 1, Len(t)) = suffix

Drop(t, n) == SubSeq(t, n + 1, Len(t))

kwSELECT == <<"S", "E", "L", "E", "C", "T">>

kwDELETE == <<"D", "E", "L", "E", "T", "E">>

\* The backquote character, by name.
Backquote == "backquote"

Fence == <<Backquote, Backquote, Backquote>>

FenceSql == Fence \o <<"s", "q", "l">>

\* _strip_sql_fences: strip, drop an opening fence (with or without "sql") and
\* the white space after it, drop a closing fence and the white space before
\* it, strip.
strip_sql_fences(text) ==
    LET t0 == Strip(text)
        t1 == IF StartsWith(Upper(t0), Upper(FenceSql))
              THEN LStrip(Drop(t0, Len(FenceSql)))
              ELSE IF StartsWith(t0, Fence) THEN LStrip(Drop(t0, Len(Fence)))
              ELSE t0
        t2 == IF EndsWith(t1, Fence)
              THEN RStrip(SubSeq(t1, 1, Len(t1) - Len(Fence)))
              ELSE t1
    IN  Strip(t2)

SelectOne == <<"S", "E", "L", "E", "C", "T", " ", "1">>

DeleteMetrics == <<"D", "E", "L", "E", "T", "E", " ", "F", "R", "O", "M", " ", "d",
                   "a", "i", "l", "y", "_", "m", "e", "t", "r", "i", "c", "s">>

\* What the language model may answer (response.content[0].text).
Responses ==
    {SelectOne,
     <<"s", "e", "l", "e", "c", "t", " ", "1">>,
     FenceSql \o <<"\n">> \o SelectOne \o <<"\n">> \o Fence,
     DeleteMetrics,
     SelectOne \o <<";", " ">> \o DeleteMetrics,
     SelectOne \o <<";", " ">> \o DeleteMetrics \o <<";", " ">> \o SelectOne,
     <<"S", "E", "L", "E", "C", "T", "T", " ", "1">>,
     <<"S", "o", "r", "r", "y">>}

\* The guard's message.
OnlySelectAllowed == "Only SELECT statements are allowed."

\* run_query's guard: sql.strip().upper().startswith("SELECT").
PassesGuard(sql) == StartsWith(Upper(Strip(sql)), kwSELECT)

RECURSIVE SplitStatements(_)
\* The server splits a simple-query string at its semicolons.
SplitStatements(t) ==
    IF \E i \in DOMAIN t : t[i] = ";"
    THEN LET i == CHOOSE i \in DOMAIN t :
                      t[i] = ";" /\ \A j \in 1..(i - 1) : t[j] # ";"
         IN  <<Strip(SubSeq(t, 1, i - 1))>> \o SplitStatements(Drop(t, i))
    ELSE <<Strip(t)>>

NonEmpty(t) == t # <<>>

\* The statements of one cur.execute(sql), in order.
Statements(sql) == SelectSeq(SplitStatements(sql), NonEmpty)

RECURSIVE FirstWord(_)
FirstWord(t) ==
    IF t = <<>> \/ Head(t) \in White THEN <<>> ELSE <<Head(t)>> \o FirstWord(Tail(t))

\* The command of each statement.
StatementKinds(sql) ==
    [i \in DOMAIN Statements(sql) |-> Upper(FirstWord(Statements(sql)[i]))]

\* The error the server answers cur.execute(sql) with, or "none".
ServerError(sql) ==
    IF \E i \in DOMAIN StatementKinds(sql) :
          StatementKinds(sql)[i] \notin {kwSELECT, kwDELETE}
    THEN "syntax error"
    ELSE "none"

\* daily_metrics after the server ran the statements (autocommit: committed).
AfterStatements(sql, table) ==
    IF \E i \in DOMAIN StatementKinds(sql) : StatementKinds(sql)[i] = kwDELETE
    THEN AfterDelete(table)
    ELSE table

\* cur.fetchall() hands out the result of the last statement, if it has one.
FetchError(sql) ==
    IF StatementKinds(sql)[Len(StatementKinds(sql))] = kwSELECT
    THEN "none"
    ELSE "no results to fetch"

\* The result dict as execute_with_retry creates it.
NewResult ==
    [sql |-> <<>>, df |-> "empty", insight |-> "", error |-> "None",
     retried |-> FALSE, retry_sql |-> <<>>, retry_error |-> "None"]

\* execute_with_retry before its first statement.
NewAssistant ==
    [pc |-> "nl_to_sql", result |-> NewResult, attempt |-> 0, sql |-> <<>>,
     conn |-> "None", pending |-> "none", ret |-> <<>>, rets |-> <<>>,
     n_gen |-> 0, n_run |-> 0, n_insight |-> 0, n_open |-> 0, n_close |-> 0,
     executed |-> <<>>, raised |-> "none"]

\* The engine is not running while the assistant answers.
AssistStep ==
    UNCHANGED <<assets, daily_prices, pc, conn, txn, cur_rowcount, deleted,
                rows_inserted, all_ok, warnings, pending, caught, raised, issued,
                n_close, run, prior, results, main_result, sessions, edit>>

\* Step 1: sql = nl_to_sql(question); result["sql"] = sql.  The API call may raise.
nl_to_sql ==
    /\ assistant.pc = "nl_to_sql"
    /\ \/ \E raw \in Responses :
             assistant' = [assistant EXCEPT !.pc = "run_query",
                                            !.attempt = 1,
                                            !.sql = strip_sql_fences(raw),
                                            !.result.sql = strip_sql_fences(raw),
                                            !.n_gen = @ + 1]
       \/ assistant' = [assistant EXCEPT !.pc = "raised", !.raised = "APIError",
                                         !.n_gen = @ + 1]
    /\ UNCHANGED daily_metrics
    /\ AssistStep

\* run_query(sql): the guard, then conn = None.
run_query_guard ==
    /\ assistant.pc = "run_query"
    /\ IF PassesGuard(assistant.sql)
       THEN assistant' = [assistant EXCEPT !.pc = "get_connection", !.conn = "None",
                                           !.ret = <<>>, !.n_run = @ + 1]
       ELSE assistant' = [assistant EXCEPT !.pc = "returned", !.conn = "None",
                                           !.ret = <<"empty", OnlySelectAllowed>>,
                                           !.rets = Append(@, <<"empty",
                                                                OnlySelectAllowed>>),
                                           !.n_run = @ + 1]
    /\ UNCHANGED daily_metrics
    /\ AssistStep

\* conn = get_connection(): a connection with autocommit on, or OperationalError.
get_connection ==
    /\ assistant.pc = "get_connection"
    /\ \/ assistant' = [assistant EXCEPT !.pc = "execute", !.conn = "open",
                                         !.n_open = @ + 1]
       \/ assistant' = [assistant EXCEPT !.pc = "except",
                                         !.pending = "connection failed"]
    /\ UNCHANGED daily_metrics
    /\ AssistStep

\* SET statement_timeout; cur.execute(sql); cur.fetchall().  The server runs
\* every statement of the string as one implicit transaction and commits it,
\* or runs none of them (an error of a statement, the timeout).
run_query_execute ==
    /\ assistant.pc = "execute"
    /\ \/ /\ ServerError(assistant.sql) = "none"
          /\ daily_metrics' = AfterStatements(assistant.sql, daily_metrics)
          /\ IF FetchError(assistant.sql) = "none"
             THEN assistant' = [assistant EXCEPT
                                    !.pc = "finally",
                                    !.ret = <<"result", "None">>,
                                    !.executed = @ \o StatementKinds(assistant.sql)]
             ELSE assistant' = [assistant EXCEPT
                                    !.pc = "except",
                                    !.pending = FetchError(assistant.sql),
                                    !.executed = @ \o StatementKinds(assistant.sql)]
       \/ /\ ServerError(assistant.sql) # "none"
          /\ assistant' = [assistant EXCEPT !.pc = "except",
                                            !.pending = ServerError(assistant.sql)]
          /\ UNCHANGED daily_metrics
       \/ /\ assistant' = [assistant EXCEPT !.pc = "except",
                                            !.pending = "statement timeout"]
          /\ UNCHANGED daily_metrics
    /\ AssistStep

\* except Exception as exc: return pd.DataFrame(), str(exc).
run_query_except ==
    /\ assistant.pc = "except"
    /\ assistant' = [assistant EXCEPT !.pc = "finally",
                                      !.ret = <<"empty", assistant.pending>>,
                                      !.pending = "none"]
    /\ UNCHANGED daily_metrics
    /\ AssistStep

\* finally: if conn is not None: conn.close(); run_query then returns.
run_query_finally ==
    /\ assistant.pc = "finally"
    /\ IF assistant.conn # "None"
       THEN assistant' = [assistant EXCEPT !.pc = "returned", !.conn = "closed",
                                           !.n_close = @ + 1,
                                           !.rets = Append(@, assistant.ret)]
       ELSE assistant' = [assistant EXCEPT !.pc = "returned",
                                           !.rets = Append(@, assistant.ret)]
    /\ UNCHANGED daily_metrics
    /\ AssistStep

\* Variant: the corrected query is tried whatever the first one returned.
NeedsRetryAlways(err) == TRUE

\* `if err is None: ... return result`: otherwise the retry follows.
NeedsRetry(err) == err # "None"

\* execute_with_retry after df, err = run_query(sql), and after
\* df2, err2 = run_query(retry_sql).
after_run_query ==
    /\ assistant.pc = "returned"
    /\ IF assistant.attempt = 1
       THEN IF ~NeedsRetry(assistant.ret[2])
            THEN assistant' = [assistant EXCEPT !.pc = "generate_insight",
                                                !.result.df = assistant.ret[1]]
            ELSE assistant' = [assistant EXCEPT !.pc = "nl_to_sql_with_error",
                                                !.result.error = assistant.ret[2],
                                                !.result.retried = TRUE]
       ELSE IF assistant.ret[2] = "None"
            THEN assistant' = [assistant EXCEPT !.pc = "generate_insight",
                                                !.result.df = assistant.ret[1],
                                                !.result.sql = assistant.sql]
            ELSE assistant' = [assistant EXCEPT !.pc = "done",
                                                !.result.retry_error = assistant.ret[2]]
    /\ UNCHANGED daily_metrics
    /\ AssistStep

\* Step 4: retry_sql = nl_to_sql_with_error(question, sql, err).
nl_to_sql_with_error ==
    /\ assistant.pc = "nl_to_sql_with_error"
    /\ \/ \E raw \in Responses :
             assistant' = [assistant EXCEPT !.pc = "run_query",
                                            !.attempt = 2,
                                            !.sql = strip_sql_fences(raw),
                                            !.result.retry_sql = strip_sql_fences(raw),
                                            !.n_gen = @ + 1]
       \/ assistant' = [assistant EXCEPT !.pc = "raised", !.raised = "APIError",
                                         !.n_gen = @ + 1]
    /\ UNCHANGED daily_metrics
    /\ AssistStep

\* result["insight"] = generate_insight(...); return result.
generate_insight ==
    /\ assistant.pc = "generate_insight"
    /\ \/ assistant' = [assistant EXCEPT !.pc = "done", !.result.insight = "insight",
                                         !.n_insight = @ + 1]
       \/ assistant' = [assistant EXCEPT !.pc = "raised", !.raised = "APIError",
                                         !.n_insight = @ + 1]
    /\ UNCHANGED daily_metrics
    /\ AssistStep

\* The stores after a recompute of two short series; one question is asked.
InitAssist ==
    /\ assets = [a \in Assets |-> TRUE]
    /\ \E n \in 0..2 :
          daily_prices = PriceSeries(1, n, 0, "alt", "ok", "ok")
                            \cup PriceSeries(2, 2, 0, "flat", "ok", "ok")
    /\ daily_metrics = MetricsSelect(daily_prices, assets)
    /\ prior = daily_metrics
    /\ FreshRun
    /\ sessions = NoSessions
    /\ edit = NoEdit
    /\ assistant = NewAssistant

NextAssist ==
    \/ nl_to_sql
    \/ run_query_guard
    \/ get_connection
    \/ run_query_execute
    \/ run_query_except
    \/ run_query_finally
    \/ after_run_query
    \/ nl_to_sql_with_error
    \/ generate_insight

SpecAssist == InitAssist /\ [][NextAssist]_vars

---------------------------------------------------------------------------
(* Properties.                                                             *)

Range(seq) == {seq[k] : k \in DOMAIN seq}

\* The PricePoints of active assets.
ActivePricePoints == {r \in daily_prices : assets[r.asset_id]}

\* The 0-based position i of a row of asset a dated d in a's date-ordered series.
PositionOf(a, d) == Cardinality({q \in daily_prices : q.asset_id = a /\ q.date < d})

\* This run's recompute has committed and returned its count.
Recomputed == rows_inserted # -1

\* This run got a connection and failed before it issued the commit.
FailedInMutation ==
    /\ caught # "none"
    /\ "connect" \in Range(issued)
    /\ "commit" \notin Range(issued)

\* C1: at every point of every run, faults after the DELETE included, the
\* committed daily_metrics is the complete set the run started with or the
\* complete newly computed set, never the emptied or a partly filled table.
C1_AtomicRecompute ==
    \/ daily_metrics = prior
    \/ daily_metrics = MetricsSelect(daily_prices, assets)

\* A run that failed after its DELETE went through and left a non-empty prior set.
C1_Witness ==
    /\ pc = "done"
    /\ raised # "none"
    /\ "DELETE" \in Range(issued)
    /\ "commit" \notin Range(issued)
    /\ prior # {}
    /\ daily_metrics = prior

\* C2: when the DELETE or the INSERT raises, the transaction is rolled back,
\* the prior set stays the stored set, and main() raises that same error.
C2_RollbackAndReraise ==
    (pc = "done" /\ FailedInMutation) =>
        /\ "rollback" \in Range(issued)
        /\ daily_metrics = prior
        /\ raised = caught

\* C3: a run that opened a connection has closed it exactly once when it ends,
\* whichever way it ends, and never closes it twice.
C3_ClosedExactlyOnce ==
    /\ n_close <= 1
    /\ (pc = "done" /\ "connect" \in Range(issued)) => (n_close = 1 /\ conn = "closed")
    /\ (pc = "done" /\ "connect" \notin Range(issued)) => n_close = 0

\* A run that ended on the failure of the validation query, connection closed.
C3_Witness ==
    /\ pc = "done"
    /\ raised = "ValidationQueryFailed"
    /\ n_close = 1

\* C4: when the connection cannot be established the run issues no statement,
\* commit or rollback, leaves daily_metrics as it was and raises the
\* connection error.
C4_ConnectFailureAborts ==
    (conn = "None" /\ pc \in {"except", "finally", "done"}) =>
        /\ issued = <<>>
        /\ daily_metrics = prior
        /\ pending = "OperationalError"
        /\ (pc = "done" => raised = "OperationalError")

\* A run that ended on the connection error, over a non-empty table.
C4_Witness ==
    /\ pc = "done"
    /\ conn = "None"
    /\ raised = "OperationalError"
    /\ daily_metrics # {}

\* C5: a validation mismatch raises nothing and rolls nothing back: the set
\* the recompute committed stays stored and the run ends without an error.
C5_MismatchNonFatal ==
    all_ok = "warnings" =>
        /\ warnings # {}
        /\ pending = "none"
        /\ "rollback" \notin Range(issued)
        /\ Len(results) > 0
        /\ daily_metrics = results[Len(results)].rows
        /\ (pc = "done" => raised = "none")

\* A run that ended normally with warnings reported.
C5_Witness ==
    /\ pc = "done"
    /\ all_ok = "warnings"
    /\ warnings # {}
    /\ raised = "none"
    /\ daily_metrics # {}

\* C6: two successive recomputes over the same prices and flags leave the same
\* rows and return the same count, whatever the table held before the first.
C6_Idempotent ==
    \A k \in DOMAIN results :
        k > 1 =>
            /\ results[k].rows = results[k - 1].rows
            /\ results[k].count = results[k - 1].count

\* Two recomputes committed, the first over a table that held other rows.
C6_Witness ==
    /\ Len(results) = 2
    /\ results[1].run = 1
    /\ results[2].run = 2
    /\ results[1].count > 0
    /\ pc = "done"
    /\ prior = daily_metrics

\* C7: after a successful recompute daily_metrics holds exactly one row per
\* PricePoint of an active asset and no other row, whatever it held before.
C7_ExactlyActiveKeys ==
    Recomputed =>
        /\ Keys(daily_metrics) = Keys(ActivePricePoints)
        /\ Cardinality(daily_metrics) = Cardinality(Keys(daily_metrics))

\* A recompute over a table of stale rows, with an inactive asset that has prices.
C7_Witness ==
    /\ Recomputed
    /\ prior # {}
    /\ Keys(prior) \ Keys(ActivePricePoints) # {}
    /\ ActivePricePoints # {}
    /\ ActivePricePoints # daily_prices

\* C8: a successful recompute returns the number of rows it wrote, the number
\* of PricePoints of active assets, whatever the DELETE removed.
C8_ReturnsRowsWritten ==
    Recomputed =>
        /\ rows_inserted = Cardinality(ActivePricePoints)
        /\ rows_inserted = Cardinality(daily_metrics)

\* A recompute that deleted a different number of rows than it wrote.
C8_Witness ==
    /\ Recomputed
    /\ rows_inserted > 0
    /\ deleted > 0
    /\ deleted # rows_inserted

\* The price rows of asset a, and those in date order.
RowsOf(a) == {q \in daily_prices : q.asset_id = a}

Ordered(a) == OrderByDate(RowsOf(a))

\* No calendar date is missing between the first and the last row of asset a.
Gapless(a) ==
    LET ord == Ordered(a)
    IN  \A p \in DOMAIN ord : p > 1 => ord[p].date = ord[p - 1].date + 1

HighLowPopulated(a) == \A q \in RowsOf(a) : ~IsNull(q.high) /\ ~IsNull(q.low)

VolumePopulated(a) == \A q \in RowsOf(a) : ~IsNull(q.volume_usd)

\* The volumes of the 30 rows before any row of asset a do not sum to zero.
VolumeMeansNonZero(a) ==
    LET ord  == Ordered(a)
        vols == [j \in DOMAIN ord |-> ord[j].volume_usd]
    IN  \A p \in DOMAIN vols : p > 30 => WSumFrom(vols, p - 30, p - 1) # Num(0)

NullsOf(a, col) == Cardinality({m \in daily_metrics : m.asset_id = a /\ m[col] = NULL})

WaterfallCounts ==
    [daily_return_pct |-> 1, vol_7d |-> 7, vol_30d |-> 30, sma_7 |-> 6, sma_30 |-> 29,
     volume_ratio_30d |-> 30, daily_range_pct |-> 0]

HasWaterfallCounts(a) ==
    \A col \in DOMAIN WaterfallCounts : NullsOf(a, col) = WaterfallCounts[col]

\* An active asset with at least 37 price rows, no missing date, high and low
\* always populated.
LongGaplessAsset(a) ==
    /\ assets[a]
    /\ Cardinality(RowsOf(a)) >= 37
    /\ Gapless(a)
    /\ HighLowPopulated(a)

C10_DailyReturn ==
    Recomputed =>
        \A a \in Assets :
            LET ord == Ordered(a)
            IN  \A p \in DOMAIN ord :
                    LET ms == {m \in daily_metrics :
                                  m.asset_id = a /\ m.date = ord[p].date}
                    IN  /\ ms # {}
                        /\ \A m \in ms :
                              IF p = 1
                              THEN m.daily_return_pct = NULL
                              ELSE /\ m.daily_return_pct # NULL
                                   /\ m.daily_return_pct =
                                         RMul(RSub(RDiv(ord[p].close, ord[p - 1].close),
                                                   Num(1)),
                                              Num(100))

\* A recompute whose rows include a first row, a fall and a rise of the close.
C10_Witness ==
    /\ Recomputed
    /\ \E m \in daily_metrics : m.asset_id = 1 /\ m.daily_return_pct = Num(-50)
    /\ \E m \in daily_metrics : m.asset_id = 1 /\ m.daily_return_pct = Num(100)
    /\ \E m \in daily_metrics :
          m.asset_id = 1 /\ PositionOf(1, m.date) = 0 /\ m.daily_return_pct = NULL

\* The metric rows stored for asset a on date d.
MetricsAt(a, d) == {m \in daily_metrics : m.asset_id = a /\ m.date = d}

\* Column col of asset a is non-NULL on exactly the rows at positions i >= k.
NonNullExactlyFrom(a, col, k) ==
    LET ord == Ordered(a)
    IN  \A p \in DOMAIN ord :
            LET ms == MetricsAt(a, ord[p].date)
            IN  /\ ms # {}
                /\ \A m \in ms : (m[col] # NULL) <=> (p - 1 >= k)

\* C11 as stated: in every asset's date-ordered series vol_7d is non-NULL
\* exactly on the rows at i >= 6 and vol_30d exactly on the rows at i >= 29.
C11_VolWarmUp_AsStated ==
    Recomputed =>
        \A a \in Assets :
            assets[a] => /\ NonNullExactlyFrom(a, "vol_7d", 6)
                         /\ NonNullExactlyFrom(a, "vol_30d", 29)

\* C11 as amended: vol_7d is non-NULL exactly on the rows at i >= 7 and vol_30d
\* exactly on the rows at i >= 30 (the return of the row at i = 0 is NULL and
\* every window must hold 7, resp. 30, non-NULL returns).
C11_VolWarmUp ==
    Recomputed =>
        \A a \in Assets :
            assets[a] => /\ NonNullExactlyFrom(a, "vol_7d", 7)
                         /\ NonNullExactlyFrom(a, "vol_30d", 30)

\* A recompute over a series long enough to have a vol_30d, whose row at i = 6
\* has no vol_7d.
C11_Witness ==
    /\ Recomputed
    /\ \E m \in daily_metrics : m.asset_id = 1 /\ m.vol_30d # NULL /\ m.vol_7d # NULL
    /\ \E m \in daily_metrics :
          m.asset_id = 1 /\ PositionOf(1, m.date) = 6 /\ m.vol_7d = NULL

C13_VolumeRatioWarmUp ==
    Recomputed =>
        \A a \in Assets :
            (assets[a] /\ VolumePopulated(a) /\ VolumeMeansNonZero(a))
                => NonNullExactlyFrom(a, "volume_ratio_30d", 30)

\* A recompute over such a series whose row at i = 29 has no ratio and whose
\* row at i = 30 has one.
C13_Witness ==
    /\ Recomputed
    /\ VolumePopulated(1) /\ VolumeMeansNonZero(1)
    /\ \E m \in daily_metrics :
          m.asset_id = 1 /\ PositionOf(1, m.date) = 29 /\ m.volume_ratio_30d = NULL
    /\ \E m \in daily_metrics :
          m.asset_id = 1 /\ PositionOf(1, m.date) = 30 /\ m.volume_ratio_30d # NULL

\* The calendar dates between the first and the last row of asset a that have
\* no row.
MissingDates(a) ==
    LET ds == {q.date : q \in RowsOf(a)}
    IN  {d \in 1..(MaxRows + 1) :
            d \notin ds /\ (\E lo \in ds : lo < d) /\ (\E hi \in ds : hi > d)}

WindowedColumns == {"vol_7d", "vol_30d", "sma_7", "sma_30", "volume_ratio_30d"}

\* The calendar dates the window of a metric of the row dated d spans.
CalendarWindow(col, d) ==
    IF col \in {"vol_7d", "sma_7"} THEN (d - 6)..d
    ELSE IF col \in {"vol_30d", "sma_30"} THEN (d - 29)..d
    ELSE (d - 30)..(d - 1)

\* C14: when one date is missing in the middle of an otherwise 40-row series,
\* every windowed metric of a row whose window spans the missing date is NULL.
C14_GapNullsWindows ==
    Recomputed =>
        \A a \in Assets :
            (assets[a] /\ Cardinality(RowsOf(a)) = 39 /\ Cardinality(MissingDates(a)) = 1)
                => \A m \in daily_metrics : \A col \in WindowedColumns :
                       (m.asset_id = a /\ CalendarWindow(col, m.date) \cap MissingDates(a) # {})
                           => m[col] = NULL

\* The rows of asset a, by 1-based position, whose 30 preceding volumes are all
\* non-NULL and average to exactly zero.
ZeroMeanPositions(a) ==
    LET ord  == Ordered(a)
        vols == [j \in DOMAIN ord |-> ord[j].volume_usd]
    IN  {p \in DOMAIN ord :
            /\ p > 30
            /\ \A j \in (p - 30)..(p - 1) : vols[j] # NULL
            /\ WSumFrom(vols, p - 30, p - 1) = Num(0)}

\* C15: a row whose 30 preceding volumes are non-NULL with a mean of exactly 0
\* gets a NULL volume_ratio_30d; the INSERT raises no division by zero on its
\* account (one is raised only where a low is zero) and the recompute goes on
\* to its commit.
C15_DivideByZeroGuard ==
    /\ pending = "DivisionByZero" => \E q \in ActivePricePoints : q.low = Num(0)
    /\ Recomputed =>
          \A a \in Assets :
              assets[a] =>
                  LET ord == Ordered(a)
                  IN  \A p \in ZeroMeanPositions(a) :
                          \A m \in MetricsAt(a, ord[p].date) : m.volume_ratio_30d = NULL

\* A recompute that committed a row of non-zero volume after 30 zero volumes.
C15_Witness ==
    /\ Recomputed
    /\ \E p \in ZeroMeanPositions(1) :
          /\ Ordered(1)[p].volume_usd # Num(0)
          /\ \E m \in MetricsAt(1, Ordered(1)[p].date) : m.volume_ratio_30d = NULL

\* Asset a has a row on each of 40 consecutive days, all with close 100 and
\* volume 1000.
ConstantSeries(a) ==
    /\ assets[a]
    /\ Cardinality(RowsOf(a)) = 40
    /\ Gapless(a)
    /\ \A q \in RowsOf(a) : q.close = Num(100) /\ q.volume_usd = Num(1000)

\* Column col of asset a has the value v on every row at a position i >= k.
ValueFrom(a, col, k, v) ==
    LET ord == Ordered(a)
    IN  \A p \in DOMAIN ord :
            p - 1 >= k =>
                LET ms == MetricsAt(a, ord[p].date)
                IN  ms # {} /\ \A m \in ms : m[col] = v

\* What the constant series yields in the columns other than vol_7d and vol_30d.
ConstantSeriesOthers(a) ==
    /\ ValueFrom(a, "sma_7", 6, Num(100))
    /\ ValueFrom(a, "sma_30", 29, Num(100))
    /\ ValueFrom(a, "volume_ratio_30d", 30, Num(1))
    /\ ValueFrom(a, "daily_return_pct", 1, Num(0))

AssetsWithMetrics == {a \in Assets : \E m \in daily_metrics : m.asset_id = a}

\* C17: the audit passes iff every asset that has metric rows has exactly 1, 0,
\* 7, 30, 6, 29 and 30 NULLs in daily_return_pct, daily_range_pct, vol_7d,
\* vol_30d, sma_7, sma_30 and volume_ratio_30d; it warns about exactly the
\* (asset, column) pairs whose count deviates, and any such pair makes the
\* verdict a non-pass.
C17_AuditVerdict ==
    all_ok # "unset" =>
        /\ all_ok \in {"passed", "warnings"}
        /\ (all_ok = "passed") <=> (\A a \in AssetsWithMetrics : HasWaterfallCounts(a))
        /\ warnings = {ac \in AssetsWithMetrics \X DOMAIN WaterfallCounts :
                           NullsOf(ac[1], ac[2]) # WaterfallCounts[ac[2]]}

\* An audit that passed over a table holding an asset's full waterfall.
C17_Witness ==
    /\ pc = "done"
    /\ all_ok = "passed"
    /\ AssetsWithMetrics # {}
    /\ warnings = {}

\* C19: the calculator raises no error on a store that satisfies the data
\* model (close > 0, one row per asset and date; open, high, low and volume
\* NULL or any value): the INSERT never ends in a division by zero or a value
\* out of range, and once it is past there is a metric row per price row.
C19_CalculatorNeverRaises ==
    /\ pending \notin {"DivisionByZero", "NumericValueOutOfRange"}
    /\ pc = "commit" => Keys(txn[1]) = Keys(ActivePricePoints)

\* C18 as stated: a run that ends normally returns to its caller the row count
\* together with the validation report (the per-asset findings and the overall
\* pass/fail value).
C18_ReturnsCountAndReport_AsStated ==
    (pc = "done" /\ raised = "none") =>
        /\ Len(main_result) = 3
        /\ main_result[1] = rows_inserted
        /\ main_result[2] = (all_ok = "passed")
        /\ main_result[3] = warnings

\* C18 as amended: a run that ends normally returns nothing (None) to its
\* caller; the row count and the audit's verdict have been computed, and exist
\* in the run's log only; a run that raises returns nothing either.
C18_ReturnsNothing ==
    /\ (pc = "done" /\ raised = "none") =>
           /\ main_result = <<"None">>
           /\ rows_inserted = Cardinality(daily_metrics)
           /\ all_ok \in {"passed", "warnings"}
    /\ (pc = "done" /\ raised # "none") => main_result = <<>>

\* A run that ended normally after writing rows and auditing them.
C18_Witness ==
    /\ pc = "done"
    /\ raised = "none"
    /\ rows_inserted > 0
    /\ all_ok = "warnings"
    /\ main_result = <<"None">>

\* A session's recompute transaction is open: its DELETE has run and it has
\* neither committed nor rolled back.
InTransaction(s) == sessions[s].pc \in {"insert", "commit", "failed"}

\* C20: while one run's recompute transaction is open, from its DELETE to its
\* commit or rollback, no concurrently started run has deleted rows from or
\* inserted rows into daily_metrics in a transaction of its own.
C20_ExclusiveWriteAccess ==
    \A s \in DOMAIN sessions :
        InTransaction(s) =>
            /\ sessions[Other(s)].ins = {}
            /\ sessions[Other(s)].del = {}

C22_VolumeRatio ==
    Recomputed =>
        \A a \in Assets :
            assets[a] =>
                LET ord  == Ordered(a)
                    vols == [j \in DOMAIN ord |-> ord[j].volume_usd]
                IN  \A p \in DOMAIN ord :
                        LET before == IF p > 30 THEN WSumFrom(vols, p - 30, p - 1)
                                      ELSE NULL
                            full   == p > 30 /\ \A j \in (p - 30)..(p - 1) : vols[j] # NULL
                        IN  \A m \in MetricsAt(a, ord[p].date) :
                                IF ~full \/ vols[p] = NULL \/ before = Num(0)
                                THEN m.volume_ratio_30d = NULL
                                ELSE m.volume_ratio_30d =
                                        RDiv(RMul(vols[p], Num(30)), before)

\* A recompute over a series with a NULL volume at a row that has 30 non-NULL
\* volumes before it, and a ratio on the row before that one.
C22_Witness ==
    /\ Recomputed
    /\ \E q \in RowsOf(1) :
          /\ PositionOf(1, q.date) >= 31
          /\ q.volume_usd = NULL
          /\ \A m \in MetricsAt(1, q.date) : m.volume_ratio_30d = NULL
          /\ \E m \in MetricsAt(1, q.date - 1) : m.volume_ratio_30d # NULL


\* An active asset with at least one price row, no missing date, and high, low
\* and volume populated on every row, no 30 consecutive volumes averaging zero.
GaplessPopulated(a) ==
    /\ assets[a]
    /\ RowsOf(a) # {}
    /\ Gapless(a)
    /\ HighLowPopulated(a)
    /\ VolumePopulated(a)
    /\ VolumeMeansNonZero(a)

\* C28: for such an asset with n price rows the audit warns about none of its
\* columns iff n >= 30; with 1 <= n < 30 it warns about at least one and the
\* overall verdict is "warnings".
C28_AuditNeedsThirtyRows ==
    all_ok # "unset" =>
        \A a \in Assets :
            GaplessPopulated(a) =>
                /\ (\A ac \in warnings : ac[1] # a) <=> (Cardinality(RowsOf(a)) >= 30)
                /\ Cardinality(RowsOf(a)) < 30 => all_ok = "warnings"

\* An audit over an asset of exactly 30 rows, not warned about, and one of
\* fewer rows, warned about.
C28_Witness ==
    /\ all_ok = "warnings"
    /\ GaplessPopulated(1) /\ GaplessPopulated(2)
    /\ Cardinality(RowsOf(1)) = 30
    /\ \A ac \in warnings : ac[1] # 1
    /\ \E ac \in warnings : ac[1] = 2

\* C29: when no active asset has a price row, a recompute that commits has
\* removed every metric row, written none and returned 0, and the audit that
\* follows passes; an active asset without price rows is never warned about.
C29_NothingToCompute ==
    /\ (Recomputed /\ ActivePricePoints = {}) =>
           /\ daily_metrics = {}
           /\ rows_inserted = 0
           /\ all_ok \in {"unset", "passed"}
           /\ warnings = {}
    /\ \A ac \in warnings : RowsOf(ac[1]) # {}

\* An audit that passed after a recompute emptied a table that held rows.
C29_Witness ==
    /\ pc = "done"
    /\ ActivePricePoints = {}
    /\ \E a \in Assets : assets[a]
    /\ Recomputed
    /\ deleted > 0
    /\ all_ok = "passed"
    /\ raised = "none"

\* C30: the validation query is issued only after the recompute committed;
\* when it raises, main() raises that error, the connection is closed, and the
\* handler's rollback leaves the newly committed set as the stored set.
C30_ValidationFailure ==
    /\ "SELECT" \in Range(issued) =>
           /\ Recomputed
           /\ \E i, j \in DOMAIN issued :
                 i < j /\ issued[i] = "commit" /\ issued[j] = "SELECT"
    /\ (pc = "done" /\ "SELECT" \in Range(issued) /\ caught # "none") =>
           /\ raised = caught
           /\ n_close = 1
           /\ conn = "closed"
           /\ daily_metrics = results[Len(results)].rows
           /\ results[Len(results)].run = run

\* C24: no step of a run, successful or failed, changes the assets table (the
\* active flags included) or the daily_prices table; daily_metrics is the only
\* table a run writes.
C24_StoresUntouched ==
    [][assets' = assets /\ daily_prices' = daily_prices]_vars

\* A run that rewrote daily_metrics from a non-empty set of active price rows,
\* after a run that failed.
C24_Witness ==
    /\ pc = "done"
    /\ run = 2
    /\ Recomputed
    /\ ActivePricePoints # {}
    /\ daily_metrics # prior
    /\ Len(results) = 1

\* Both runs committed a recompute, with the change between them.
BothRecomputed ==
    /\ Len(results) = 2
    /\ results[1].run = 1
    /\ results[2].run = 2
    /\ edit # NoEdit

\* The MetricPoints that are not the same in the two recomputes' outputs.
Differing ==
    (results[1].rows \ results[2].rows) \cup (results[2].rows \ results[1].rows)

\* The rows of asset a that follow date d, up to and including date e.
Following(a, d, e) ==
    {q \in daily_prices : q.asset_id = a /\ d < q.date /\ q.date <= e}

\* C23: when one price row of an asset was inserted or changed at date d
\* between two recomputes, every metric row that differs between their outputs
\* is of that asset and is the row at d or one of the 30 rows that follow d in
\* the asset's date order; every other metric row is the same.
C23_BoundedBackfill ==
    (BothRecomputed /\ edit[1] = "upsert") =>
        \A m \in Differing :
            /\ m.asset_id = edit[2]
            /\ m.date >= edit[3]
            /\ Cardinality(Following(edit[2], edit[3], m.date)) <= 30

\* A backfill whose effect reaches the 30th row after d while a 31st row
\* exists and is the same in both outputs.
C23_Witness ==
    /\ BothRecomputed
    /\ edit[1] = "upsert"
    /\ \E m \in Differing : Cardinality(Following(edit[2], edit[3], m.date)) = 30
    /\ \E m \in results[1].rows \cap results[2].rows :
          m.asset_id = edit[2] /\ Cardinality(Following(edit[2], edit[3], m.date)) = 31
    /\ \E m \in Differing : m.date = edit[3]

\* C27: whatever is added to, removed from or changed in the price rows of
\* another asset B, or when B's active flag is switched, the metric rows of
\* asset A are the same after the recompute as before.
C27_PerAssetIsolation ==
    BothRecomputed =>
        \A a \in Assets \ {edit[2]} :
            {m \in results[1].rows : m.asset_id = a}
                = {m \in results[2].rows : m.asset_id = a}

\* The change altered the output for B while A has metric rows.
C27_Witness ==
    /\ BothRecomputed
    /\ Differing # {}
    /\ \E m \in results[2].rows : m.asset_id # edit[2]
    /\ \E m \in Differing : m.asset_id = edit[2]

\* What run_query promises about its return value and its connection, for
\* the call that has just returned.
RunQueryContract ==
    /\ assistant.raised \in {"none", "APIError"}
    /\ assistant.pc = "returned" =>
          /\ ~PassesGuard(assistant.sql) =>
                /\ assistant.ret = <<"empty", OnlySelectAllowed>>
                /\ assistant.conn = "None"
          /\ PassesGuard(assistant.sql) =>
                \/ assistant.ret = <<"result", "None">>
                \/ assistant.ret[1] = "empty" /\ assistant.ret[2] # "None"
          /\ assistant.conn # "open"
          /\ assistant.n_open = assistant.n_close

\* C25: run_query has the server execute SELECT statements only and never
\* raises; a text that does not begin with SELECT once trimmed (in any case) is
\* answered with (empty frame, "Only SELECT statements are allowed.") and no
\* connection; any other text with (result, None) or (empty frame, error
\* text); every connection opened is closed when it returns.
C25_RunQuerySelectOnly ==
    /\ \A k \in DOMAIN assistant.executed : assistant.executed[k] = kwSELECT
    /\ RunQueryContract

\* The question has been answered: execute_with_retry returned its result.
Answered == assistant.pc = "done"

\* The error of the k-th run_query call ("None": it succeeded).
ErrorOf(k) == assistant.rets[k][2]

\* C26: per question run_query is called at most twice and SQL is generated at
\* most twice; the retry happens exactly when the first query returned an
\* error; an insight is generated exactly when one of the queries succeeded;
\* after a successful retry the result's sql is the corrected SQL and error is
\* still the first error; after two failures retry_error is set and df is empty.
C26_RetryAtMostOnce ==
    /\ assistant.n_run <= 2
    /\ assistant.n_gen <= 2
    /\ assistant.n_insight <= 1
    /\ Len(assistant.rets) >= 1 =>
          /\ (assistant.n_gen = 2 \/ assistant.n_run = 2) => ErrorOf(1) # "None"
          /\ assistant.result.retried => ErrorOf(1) # "None"
    /\ assistant.n_insight = 1 =>
          \E k \in DOMAIN assistant.rets : ErrorOf(k) = "None"
    /\ Answered =>
          /\ assistant.result.retried = (ErrorOf(1) # "None")
          /\ assistant.n_run = (IF ErrorOf(1) # "None" THEN 2 ELSE 1)
          /\ assistant.n_gen = assistant.n_run
          /\ assistant.result.error = ErrorOf(1)
          /\ (assistant.n_insight = 1)
                = (\E k \in DOMAIN assistant.rets : ErrorOf(k) = "None")
          /\ (assistant.result.insight # "") = (assistant.n_insight = 1)
          /\ (ErrorOf(1) # "None" /\ ErrorOf(2) = "None") =>
                /\ assistant.result.sql = assistant.result.retry_sql
                /\ assistant.result.df = assistant.rets[2][1]
                /\ assistant.result.retry_error = "None"
          /\ (ErrorOf(1) # "None" /\ ErrorOf(2) # "None") =>
                /\ assistant.result.retry_error = ErrorOf(2)
                /\ assistant.result.df = "empty"

\* A first query that failed, a corrected one of another text that succeeded,
\* and its insight.
C26_Witness ==
    /\ Answered
    /\ Len(assistant.rets) = 2
    /\ ErrorOf(2) = "None"
    /\ assistant.result.retry_sql = SelectOne
    /\ assistant.result.insight # ""
    /\ assistant.result.error = "syntax error"

=============================================================================
